---- MODULE Spec2Model ----
(***************************************************************************)
(* Job lifecycle of the pdf-validator service: the Celery task             *)
(* validate_pdf_task, the worker PDFValidationWorker.process_validation_   *)
(* task it wraps, the block extraction of EnhancedPDFProcessor and the     *)
(* page snapshot batch of PageSnapshotService, over the four tables        *)
(* (tasks, results, blocks, snapshots) and the object store.               *)
(*                                                                         *)
(* An attempt is split at its database commits and object-store writes:    *)
(* those are the points where another attempt can observe it.              *)
(***************************************************************************)
EXTENDS Integers, Sequences, FiniteSets, TLC

\* Settings.MAX_RETRY_ATTEMPTS
MAX_RETRY_ATTEMPTS == 3

\* Task.max_retries of validate_pdf_task: the decorator passes no
\* max_retries option (only retry_kwargs), so the bare self.retry(exc=exc)
\* in the body runs with the task's own max_retries, Celery's default.
TaskMaxRetries == 3

\* Largest page count of the source document.
MaxPages == 2

\* The single queue message of one enqueued job.
JobIds == {1}

\* Task ids that have a ValidationTask row / task ids a job may be
\* delivered with (validate_pdf_task takes the id as an argument).
TaskIds == {"t1"}
TaskIdArgs == {"t1", "t0"}

\* An attempt is named <<job, request.retries>>; timestamps are modelled by
\* the attempt that wrote them.
NoStamp == <<0, 0>>
NoMessage == [marker |-> "none", exc |-> "none"]
NoSummary == [set |-> FALSE, is_valid |-> FALSE, page_count |-> 0, has_errors |-> FALSE]
NoResult == [is_valid |-> FALSE, page_count |-> 0, errors |-> 0]

\* doc .. raised: the worker, its tables and the object store.
\* all_blocks, stage: the in-memory block list of process_pdf_with_blocks
\* and how far its passes have got. del: a delete_task_snapshots request.
\* calc: the argument and the result of a function examined on its own.
VARIABLES doc, task, results, blocks, snapshots, objects, jobs, raised,
          all_blocks, stage, del, calc

vars == <<doc, task, results, blocks, snapshots, objects, jobs, raised,
          all_blocks, stage, del, calc>>

\* What the worker's steps leave alone.
others == <<all_blocks, stage, del, calc>>

\* No function is being examined.
NoCalc == [op |-> "none"]

\* No delete request has been made.
NoRequest ==
  [pc |-> "idle", task_id |-> "none", read |-> <<>>, deleted |-> <<>>,
   failed |-> <<>>, deleted_records |-> 0, status |-> 0, detail |-> "none"]

Attempt(j) == <<j, jobs[j].retries>>

\* ValidationTask(...) as created by create_validation_task.
NewTask ==
  [status |-> "pending", started_at |-> NoStamp, completed_at |-> NoStamp,
   retry_count |-> 0, max_retries |-> 3,
   result_summary |-> NoSummary, error_message |-> NoMessage]

\* validate_pdf_task.delay(task_id, ...): request.retries = 0. local: the
\* path argument names a file of the worker's host (it starts with '/' or
\* 'C:') and not an object of the store; files: the files of the host that
\* belong to the job, its source file or the temporary copies of its
\* attempts.
NewJob(tid) ==
  [pc |-> "queued", task_id |-> tid, retries |-> 0, runs |-> 0,
   exc |-> "none", vres |-> NoResult, xfail |-> FALSE,
   page |-> 0, pending |-> <<>>, nsnap |-> 0,
   local |-> FALSE, files |-> {}]

\* The file made by NamedTemporaryFile(suffix='.pdf', delete=False) in
\* attempt a.
TempFile(a) == <<"tmp", a>>

\* temp_path of an attempt: the source itself, or a fresh temporary file
\* that exists from then on, whether or not the download succeeds.
Located(files, local, a) ==
  IF local THEN files ELSE files \cup {TempFile(a)}

\* The cleanup of both exits: unlink temp_path unless the path is local.
Cleanup(files, local, a) ==
  IF local THEN files ELSE files \ {TempFile(a)}

\* Mutation: validation that does not notice the document cannot be opened.
ValidatePdfFile_IgnoresOpen(d) ==
  [is_valid |-> TRUE, page_count |-> d.pages, errors |-> 0]

\* PDFValidationWorker._validate_pdf_file over PDFProcessor.validate_pdf:
\* never raises; a document that cannot be opened gives the failure result.
ValidatePdfFile(d) ==
  IF d.openable
  THEN [is_valid |-> TRUE, page_count |-> d.pages, errors |-> 0]
  ELSE [is_valid |-> FALSE, page_count |-> 0, errors |-> 1]

\* task.result_summary of process_validation_task.
ResultSummary(v) ==
  [set |-> TRUE, is_valid |-> v.is_valid, page_count |-> v.page_count,
   has_errors |-> v.errors > 0]

\* Mutation: compares request.retries itself, allowing one retry too many.
RetriesExhausted_OffByOne(retries, max_retries) == retries > max_retries

\* Celery's Task.retry: retries = request.retries + 1 exceeds max_retries.
RetriesExhausted(retries, max_retries) == retries + 1 > max_retries

\* Mutation: a task that is completed is not taken up again.
MarkProcessing_KeepsCompleted(t, a) ==
  IF t.status = "completed" THEN t
  ELSE [t EXCEPT !.status = "processing", !.started_at = a]

\* task.status = PROCESSING; task.started_at = utcnow()
MarkProcessing(t, a) == [t EXCEPT !.status = "processing", !.started_at = a]

\* Mutation: the success path stores the summary but leaves the status to
\* a later commit.
MarkCompleted_NoStatus(t, a, v) ==
  [t EXCEPT !.completed_at = a, !.result_summary = ResultSummary(v)]

\* task.status = COMPLETED; completed_at; result_summary (the only columns
\* the success path assigns).
MarkCompleted(t, a, v) ==
  [t EXCEPT !.status = "completed", !.completed_at = a,
            !.result_summary = ResultSummary(v)]

\* Mutation: a failure path that does not stamp the end of the attempt.
MarkFailed_NoTimestamp(t, a, msg) ==
  [t EXCEPT !.status = "failed", !.error_message = msg]

\* task.status = FAILED; completed_at; error_message (both failure paths).
MarkFailed(t, a, msg) ==
  [t EXCEPT !.status = "failed", !.completed_at = a, !.error_message = msg]

\* str(e) written by the worker's handler.
CauseMessage(e) == [marker |-> "cause", exc |-> e]

\* Mutation: the final failure message without the max-retries wrapper.
MaxRetriesMessage_Unmarked(e) == [marker |-> "cause", exc |-> e]

\* The "max retries reached" text wrapped around str(exc) by the task.
MaxRetriesMessage(e) == [marker |-> "max_retries", exc |-> e]

\* ValidationResult(...) row of an attempt.
ResultRecord(tid, a, v) ==
  [task_id |-> tid, by |-> a, is_valid |-> v.is_valid,
   page_count |-> v.page_count, errors |-> v.errors]

\* PDFPageSnapshot(...) row of page p (1-based); thumb: thumbnail_path set.
SnapshotRecord(tid, p, thumb, a) ==
  [task_id |-> tid, page_num |-> p, thumb |-> thumb, by |-> a]

\* PDFBlockInfo(...) rows: one block per page read.
BlockRecords(tid, n, a) ==
  [p \in 1..n |-> [task_id |-> tid, page_num |-> p, by |-> a]]

\* db.commit() of a session holding the added rows.
Commit(table, added) == table \o added

\* Mutation: a rollback that leaves the rows added so far in the table.
Rollback_KeepsAdded(table, added) == table \o added

\* db.rollback(): the rows added to the session are discarded.
Rollback(table, added) == table

\* Object keys pdf-snapshots/{task}/page_NNNN.png and .../thumbnails/...
ImageKey(tid, p) == <<"img", tid, p>>
ThumbKey(tid, p) == <<"thumb", tid, p>>

Init ==
  /\ doc \in [openable : BOOLEAN, pages : 1..MaxPages]
  /\ task = NewTask
  /\ results = <<>>
  /\ blocks = <<>>
  /\ snapshots = <<>>
  /\ objects = {}
  /\ \E tid \in TaskIdArgs : jobs = [j \in JobIds |-> NewJob(tid)]
  /\ raised = 0
  /\ all_blocks = <<>>
  /\ stage = "idle"
  /\ del = NoRequest
  /\ calc = NoCalc

\* process_validation_task, step 1: look the task up, mark it processing.
\* A missing row raises; the handler then has no task to update.
Begin(j) ==
  /\ jobs[j].pc = "queued"
  /\ IF jobs[j].task_id \notin TaskIds
     THEN /\ jobs' = [jobs EXCEPT ![j].pc = "outer", ![j].exc = "not_found",
                                  ![j].runs = @ + 1]
          /\ UNCHANGED <<task, raised>>
     ELSE /\ task' = MarkProcessing(task, Attempt(j))
          /\ jobs' = [jobs EXCEPT ![j].pc = "fetch", ![j].runs = @ + 1,
                                  ![j].xfail = FALSE, ![j].page = 0,
                                  ![j].nsnap = 0]
          /\ UNCHANGED raised
  /\ UNCHANGED <<doc, results, blocks, snapshots, objects>>
  /\ UNCHANGED others

\* Steps 2 and 3: locate or download the file (may raise), validate it.
Fetch(j) ==
  /\ jobs[j].pc = "fetch"
  /\ \E ok \in BOOLEAN :
       LET files == Located(jobs[j].files, jobs[j].local, Attempt(j))
       IN  jobs' = IF ok
                   THEN [jobs EXCEPT ![j].pc = "extract",
                                     ![j].vres = ValidatePdfFile(doc),
                                     ![j].files = files]
                   ELSE [jobs EXCEPT ![j].pc = "handler", ![j].exc = "fetch",
                                     ![j].files = files]
  /\ UNCHANGED <<doc, task, results, blocks, snapshots, objects, raised>>
  /\ UNCHANGED others

\* Mutation: a failed page read is skipped and the pipeline carries on.
AfterExtract_SkipsFailure(read_ok) == "snap"

\* Where process_validation_task goes after the page loop of
\* process_pdf_with_blocks: on to the snapshots, or (the exception is
\* logged and swallowed) straight to saving the validation result.
AfterExtract(read_ok) == IF read_ok THEN "snap" ELSE "finish"

\* process_pdf_with_blocks, up to the end of the page loop: open the
\* document and read every page. Any failure raises PDFValidationError,
\* which process_validation_task logs and swallows.
Extract(j) ==
  /\ jobs[j].pc = "extract"
  /\ \E ok \in BOOLEAN :
       jobs' = [jobs EXCEPT ![j].pc = AfterExtract(doc.openable /\ ok),
                            ![j].xfail = ~(doc.openable /\ ok)]
  /\ UNCHANGED <<doc, task, results, blocks, snapshots, objects, raised>>
  /\ UNCHANGED others

\* Mutation: a thumbnail that cannot be made aborts the page.
PageRaises_OnThumbnail(image_ok, thumb_ok, rest_ok) ==
  ~image_ok \/ ~thumb_ok \/ ~rest_ok

\* _extract_single_page and the row's db.add raise when rendering or
\* uploading the image fails or when a later call of the iteration fails;
\* _create_thumbnail catches whatever fails inside it and returns None.
PageRaises(image_ok, thumb_ok, rest_ok) == ~image_ok \/ ~rest_ok

\* extract_page_snapshots, one iteration of the page loop:
\* _extract_single_page uploads the image and (best effort) the thumbnail,
\* then the row is added to the session. img/thumb: the uploads that
\* happened; ok: the iteration did not raise. A raise rolls the session
\* back and is swallowed by process_pdf_with_blocks.
SnapPage(j) ==
  /\ jobs[j].pc = "snap"
  /\ jobs[j].page < doc.pages
  /\ LET p == jobs[j].page + 1
         tid == jobs[j].task_id
     IN \E image_ok \in BOOLEAN, thumb_ok \in BOOLEAN, rest_ok \in BOOLEAN :
        LET img == image_ok
            thumb == image_ok /\ thumb_ok
            ok == ~PageRaises(image_ok, thumb_ok, rest_ok)
        IN
          /\ objects' = objects \cup (IF img THEN {ImageKey(tid, p)} ELSE {})
                                 \cup (IF thumb THEN {ThumbKey(tid, p)} ELSE {})
          /\ jobs' = IF ok
                     THEN [jobs EXCEPT
                             ![j].page = p,
                             ![j].pending =
                               Append(@, SnapshotRecord(tid, p, thumb, Attempt(j))),
                             ![j].pc = IF p = doc.pages THEN "snapcommit" ELSE "snap"]
                     ELSE [jobs EXCEPT ![j].pending = <<>>,
                                       ![j].pc = "blocks"]
          /\ snapshots' = IF ok THEN snapshots
                          ELSE Rollback(snapshots, jobs[j].pending)
  /\ UNCHANGED <<doc, task, results, blocks, raised>>
  /\ UNCHANGED others

\* extract_page_snapshots, after the loop: the single db.commit(); a
\* failing commit rolls back and is swallowed like a page failure.
SnapCommit(j) ==
  /\ jobs[j].pc = "snapcommit"
  /\ \E ok \in BOOLEAN :
       /\ snapshots' = IF ok THEN Commit(snapshots, jobs[j].pending)
                       ELSE Rollback(snapshots, jobs[j].pending)
       /\ jobs' = [jobs EXCEPT ![j].pc = "blocks", ![j].pending = <<>>,
                               ![j].nsnap = IF ok THEN Len(jobs[j].pending)
                                            ELSE 0]
  /\ UNCHANGED <<doc, task, results, blocks, objects, raised>>
  /\ UNCHANGED others

\* process_pdf_with_blocks, after the snapshots: classify, associate and
\* _save_blocks_to_db (one commit, rollback and raise on failure; the raise
\* is swallowed by process_validation_task).
SaveBlocks(j) ==
  /\ jobs[j].pc = "blocks"
  /\ \E ok \in BOOLEAN :
       LET rows == BlockRecords(jobs[j].task_id, doc.pages, Attempt(j))
       IN blocks' = IF ok THEN Commit(blocks, rows) ELSE Rollback(blocks, rows)
  /\ jobs' = [jobs EXCEPT ![j].pc = "finish"]
  /\ UNCHANGED <<doc, task, results, snapshots, objects, raised>>
  /\ UNCHANGED others

\* process_validation_task, steps 4 to 6: add the ValidationResult, mark
\* the task completed, one commit, remove the temporary copy. The attempt
\* may instead be cut short by the soft time limit (an Exception like any
\* other).
Finish(j) ==
  /\ jobs[j].pc = "finish"
  /\ \E ok \in BOOLEAN :
       IF ok
       THEN /\ results' = Commit(results,
                  <<ResultRecord(jobs[j].task_id, Attempt(j), jobs[j].vres)>>)
            /\ task' = MarkCompleted(task, Attempt(j), jobs[j].vres)
            /\ jobs' = [jobs EXCEPT
                         ![j].pc = "done", ![j].vres = NoResult,
                         ![j].files = Cleanup(@, jobs[j].local, Attempt(j))]
       ELSE /\ jobs' = [jobs EXCEPT ![j].pc = "handler", ![j].exc = "timeout"]
            /\ UNCHANGED <<task, results>>
  /\ UNCHANGED <<doc, blocks, snapshots, objects, raised>>
  /\ UNCHANGED others

\* process_validation_task, except branch: mark the task failed with
\* str(e), commit, remove the temporary copy, re-raise.
Handler(j) ==
  /\ jobs[j].pc = "handler"
  /\ task' = MarkFailed(task, Attempt(j), CauseMessage(jobs[j].exc))
  /\ jobs' = [jobs EXCEPT ![j].pc = "outer", ![j].vres = NoResult,
                          ![j].files = Cleanup(@, jobs[j].local, Attempt(j))]
  /\ raised' = raised + 1
  /\ UNCHANGED <<doc, results, blocks, snapshots, objects>>
  /\ UNCHANGED others

\* validate_pdf_task, except branch: on the last allowed try mark the task
\* failed with the max-retries message (if the row exists), then
\* self.retry(exc=exc). retry() either re-sends the message with
\* retries + 1 (raising Retry) or, when exhausted, raises exc; the
\* autoretry_for wrapper calls retry() once more with
\* max_retries = MAX_RETRY_ATTEMPTS before the task fails for good.
Outer(j) ==
  /\ jobs[j].pc = "outer"
  /\ task' = IF jobs[j].retries >= MAX_RETRY_ATTEMPTS /\ jobs[j].task_id \in TaskIds
             THEN MarkFailed(task, Attempt(j), MaxRetriesMessage(jobs[j].exc))
             ELSE task
  /\ jobs' = IF /\ RetriesExhausted(jobs[j].retries, TaskMaxRetries)
                /\ RetriesExhausted(jobs[j].retries, MAX_RETRY_ATTEMPTS)
             THEN [jobs EXCEPT ![j].pc = "dead"]
             ELSE [jobs EXCEPT ![j].pc = "queued", ![j].retries = @ + 1,
                               ![j].exc = "none"]
  /\ UNCHANGED <<doc, results, blocks, snapshots, objects, raised>>
  /\ UNCHANGED others

Next ==
  \E j \in JobIds :
    \/ Begin(j)
    \/ Fetch(j)
    \/ Extract(j)
    \/ SnapPage(j)
    \/ SnapCommit(j)
    \/ SaveBlocks(j)
    \/ Finish(j)
    \/ Handler(j)
    \/ Outer(j)

Spec == Init /\ [][Next]_vars

(***************************************************************************)
(* DELETE /page-snapshots/{task_id}: delete_task_snapshots.                *)
(***************************************************************************)

\* Most storage calls of one request that fail.
MaxDeleteFailures == 1

\* The storage calls of the loop over the rows read, in order: the image
\* of each row, then its thumbnail if the row has one.
RECURSIVE DeleteCalls(_)
DeleteCalls(rows) ==
  IF rows = <<>> THEN <<>>
  ELSE <<ImageKey(rows[1].task_id, rows[1].page_num)>>
         \o (IF rows[1].thumb
             THEN <<ThumbKey(rows[1].task_id, rows[1].page_num)>>
             ELSE <<>>)
         \o DeleteCalls(Tail(rows))

\* The sets of at most k of the calls 1..n.
RECURSIVE CallSets(_, _)
CallSets(n, k) ==
  IF k = 0 THEN {{}}
  ELSE CallSets(n, k - 1)
         \cup {F \cup {c} : F \in CallSets(n, k - 1), c \in 1..n}

\* The paths of the calls in K, in call order (deleted_files, failed_files).
RECURSIVE Collected(_, _)
Collected(calls, K) ==
  IF calls = <<>> THEN <<>>
  ELSE LET front == Collected(SubSeq(calls, 1, Len(calls) - 1), K)
       IN  IF Len(calls) \in K THEN Append(front, calls[Len(calls)]) ELSE front

\* Mutation: the loop stops at the first storage failure.
Attempted_UntilFailure(n, F) == {c \in 1..n : \A f \in F : c <= f}

\* The calls the loop makes: each one is in its own try/except, so all.
Attempted(n, F) == 1..n

\* Every job has ended: no attempt is running or due.
JobsEnded == \A j \in JobIds : jobs[j].pc \in {"done", "dead"}

\* Mutation: the handler does not test for an empty query result.
NoSnapshots_Unchecked(rows) == FALSE

\* if not snapshots:
NoSnapshots(rows) == rows = <<>>

\* delete_task_snapshots(task_id), the whole handler, for a request that
\* arrives after the jobs have ended. F: the storage calls that raise;
\* db_ok: whether the bulk delete and its commit succeed. delete_file
\* swallows NoSuchKey, so a call for an object that is already gone counts
\* as deleted. The HTTPException(404) for a task without rows is raised
\* inside the try and leaves through `except Exception` as a 500, as does
\* a database error; detail is what str(e) tells of the cause.
DeleteTaskSnapshots(tid) ==
  /\ del.pc = "idle"
  /\ JobsEnded
  /\ LET rows == SelectSeq(snapshots, LAMBDA r : r.task_id = tid)
         calls == DeleteCalls(rows)
     IN  IF NoSnapshots(rows)
         THEN /\ del' = [NoRequest EXCEPT !.pc = "responded", !.task_id = tid,
                                          !.status = 500, !.detail = "not_found"]
              /\ UNCHANGED <<snapshots, objects>>
         ELSE \E F \in CallSets(Len(calls), MaxDeleteFailures), db_ok \in BOOLEAN :
                LET tried == Attempted(Len(calls), F)
                    done == tried \ F
                IN  /\ objects' = objects \ {calls[c] : c \in done}
                    /\ snapshots' =
                         IF db_ok
                         THEN SelectSeq(snapshots, LAMBDA r : r.task_id # tid)
                         ELSE snapshots
                    /\ del' =
                         IF db_ok
                         THEN [pc |-> "responded", task_id |-> tid,
                               read |-> calls,
                               deleted |-> Collected(calls, done),
                               failed |-> Collected(calls, tried \cap F),
                               deleted_records |-> Len(rows),
                               status |-> 200, detail |-> "none"]
                         ELSE [NoRequest EXCEPT !.pc = "responded",
                                                !.task_id = tid, !.read = calls,
                                                !.status = 500, !.detail = "db"]
  /\ UNCHANGED <<doc, task, results, blocks, jobs, raised, all_blocks, stage, calc>>

\* Most pages of a document whose snapshots are deleted.
MaxDelPages == 1

\* The states of Init whose document has at most MaxDelPages pages.
InitDel == Init /\ doc.pages <= MaxDelPages

NextDel == Next \/ \E tid \in TaskIdArgs : DeleteTaskSnapshots(tid)

SpecDel == InitDel /\ [][NextDel]_vars

\* The last try of a job whose three earlier tries all failed at the
\* download: the task row is failed with the download's message, no row
\* and no object has been written, and the document may have any number
\* of pages up to MaxPages.
InitLastTry ==
  /\ doc \in [openable : {TRUE}, pages : 1..MaxPages]
  /\ task = [NewTask EXCEPT !.status = "failed",
                            !.started_at = <<1, MAX_RETRY_ATTEMPTS - 1>>,
                            !.completed_at = <<1, MAX_RETRY_ATTEMPTS - 1>>,
                            !.error_message = CauseMessage("fetch")]
  /\ results = <<>>
  /\ blocks = <<>>
  /\ snapshots = <<>>
  /\ objects = {}
  /\ jobs = [j \in JobIds |->
               [NewJob("t1") EXCEPT !.retries = MAX_RETRY_ATTEMPTS,
                                    !.runs = MAX_RETRY_ATTEMPTS]]
  /\ raised = MAX_RETRY_ATTEMPTS
  /\ all_blocks = <<>>
  /\ stage = "idle"
  /\ del = NoRequest
  /\ calc = NoCalc

SpecLastTry == InitLastTry /\ [][NextDel]_vars

(***************************************************************************)
(* The files of the worker's host: the path argument may be local, and the *)
(* commit of the except branch may itself fail.                            *)
(***************************************************************************)

\* The states of Init for a one-page document, with a path argument of
\* either kind; a local source file exists.
InitFiles ==
  /\ doc \in [openable : BOOLEAN, pages : {1}]
  /\ task = NewTask
  /\ results = <<>>
  /\ blocks = <<>>
  /\ snapshots = <<>>
  /\ objects = {}
  /\ \E local \in BOOLEAN :
       jobs = [j \in JobIds |->
                 [NewJob("t1") EXCEPT
                    !.local = local,
                    !.files = IF local THEN {"source"} ELSE {}]]
  /\ raised = 0
  /\ all_blocks = <<>>
  /\ stage = "idle"
  /\ del = NoRequest
  /\ calc = NoCalc

\* process_validation_task, except branch, when its db.commit() raises:
\* the statements after it (the cleanup and the re-raise) do not run, the
\* commit's exception leaves the function, and finally closes the session
\* with the FAILED status uncommitted.
HandlerCommitFails(j) ==
  /\ jobs[j].pc = "handler"
  /\ jobs' = [jobs EXCEPT ![j].pc = "outer", ![j].vres = NoResult,
                          ![j].exc = "commit"]
  /\ raised' = raised + 1
  /\ UNCHANGED <<doc, task, results, blocks, snapshots, objects>>
  /\ UNCHANGED others

NextFiles == Next \/ \E j \in JobIds : HandlerCommitFails(j)

SpecFiles == InitFiles /\ [][NextFiles]_vars

(***************************************************************************)
(* Duplicate delivery: the broker hands the message of a job to a worker   *)
(* a second time. Nothing in validate_pdf_task or process_validation_task  *)
(* looks for another attempt of the task.                                  *)
(***************************************************************************)

\* The original job and the slot of its duplicate.
DupIds == {1, 2}

\* A slot no message has been delivered to.
FreeSlot == [NewJob("none") EXCEPT !.pc = "free"]

\* The document cannot be opened, so an attempt is: query and mark, fetch
\* and validate, the swallowed extraction failure, save the result.
InitDup ==
  /\ doc \in [openable : {FALSE}, pages : 1..MaxPages]
  /\ task = NewTask
  /\ results = <<>>
  /\ blocks = <<>>
  /\ snapshots = <<>>
  /\ objects = {}
  /\ jobs = [j \in DupIds |-> IF j = 1 THEN NewJob("t1") ELSE FreeSlot]
  /\ raised = 0
  /\ all_blocks = <<>>
  /\ stage = "idle"
  /\ del = NoRequest
  /\ calc = NoCalc

\* The message job j is running, or ran, is delivered once more to slot k,
\* with the same task id and the same request.retries.
Duplicate(j, k) ==
  /\ jobs[j].pc # "free"
  /\ jobs[k].pc = "free"
  /\ jobs' = [jobs EXCEPT ![k] = [NewJob(jobs[j].task_id) EXCEPT
                                    !.retries = jobs[j].retries]]
  /\ UNCHANGED <<doc, task, results, blocks, snapshots, objects, raised>>
  /\ UNCHANGED others

\* The steps an attempt on an unopenable document takes, and the duplicate
\* delivery.
NextDup ==
  \E j \in DupIds :
    \/ Begin(j)
    \/ Fetch(j)
    \/ Extract(j)
    \/ Finish(j)
    \/ Handler(j)
    \/ Outer(j)
    \/ \E k \in DupIds : Duplicate(j, k)

SpecDup == InitDup /\ [][NextDup]_vars

(***************************************************************************)
(* The passes of EnhancedPDFProcessor over the block list.                 *)
(*                                                                         *)
(* A block's text is the sequence of its characters' classes: "d" a digit, *)
(* space, dash or dot; "k" a CJK character that is one of the role         *)
(* keywords; "c" any other CJK ideograph; "a" anything else. Confidence is *)
(* in hundredths (0.9 is 90, 0.7 is 70).                                   *)
(***************************************************************************)

\* Longest block list.
MaxBlocks == 6

NoCode == "none"
NoName == <<>>
NoConfidence == -1

Abs(x) == IF x < 0 THEN -x ELSE x

\* A block dict as built by _extract_page_blocks (the fields the passes
\* read or write).
Block(text, cy, h, code, size, indent, bold) ==
  [text |-> text, center_y |-> cy, height |-> h, occupation_code |-> code,
   occupation_name |-> NoName, confidence |-> NoConfidence,
   font_size |-> size, indentation |-> indent, is_bold |-> bold,
   hierarchy_level |-> 0]

\* Block lists of at most n blocks over a set of blocks.
ListsUpTo(S, n) == UNION {[1..k -> S] : k \in 0..n}

\* sorted(set(...)) as an ascending list.
RECURSIVE Sorted(_)
Sorted(S) ==
  IF S = {} THEN <<>>
  ELSE LET m == CHOOSE x \in S : \A y \in S : x <= y
       IN  <<m>> \o Sorted(S \ {m})

\* font_sizes = sorted(set(b["font_size"] for b in blocks if b["font_size"] > 0))
FontSizes(bs) ==
  Sorted({bs[i].font_size : i \in {k \in DOMAIN bs : bs[k].font_size > 0}})

\* The indentations in first-seen order, without repeats.
RECURSIVE FirstSeen(_)
FirstSeen(s) ==
  IF s = <<>> THEN <<>>
  ELSE LET front == FirstSeen(SubSeq(s, 1, Len(s) - 1))
       IN  IF \E k \in DOMAIN front : front[k] = s[Len(s)]
           THEN front
           ELSE Append(front, s[Len(s)])

\* Mutation: the indentations are not sorted before the tiers are built.
Indentations_Unsorted(bs) == FirstSeen([i \in DOMAIN bs |-> bs[i].indentation])

\* indentations = sorted(set(b["indentation"] for b in blocks))
Indentations(bs) == Sorted({bs[i].indentation : i \in DOMAIN bs})

\* The loop of _get_indent_levels: an indentation more than 15 beyond the
\* last tier opens a new tier.
RECURSIVE GrowLevels(_, _)
GrowLevels(levels, rest) ==
  IF rest = <<>> THEN levels
  ELSE IF rest[1] - levels[Len(levels)] > 15
       THEN GrowLevels(Append(levels, rest[1]), Tail(rest))
       ELSE GrowLevels(levels, Tail(rest))

\* _get_indent_levels: at most four tiers (levels[:4]).
GetIndentLevels(indentations) ==
  IF indentations = <<>> THEN <<>>
  ELSE LET levels == GrowLevels(<<indentations[1]>>, Tail(indentations))
       IN  SubSeq(levels, 1, IF Len(levels) < 4 THEN Len(levels) ELSE 4)

\* _get_indent_level: the (0-based) index of the first tier closer than 10,
\* else the number of tiers beyond the last tier and 0 before it.
GetIndentLevel(indent, levels) ==
  LET near == {k \in DOMAIN levels : Abs(indent - levels[k]) < 10}
  IN  IF near # {}
      THEN (CHOOSE k \in near : \A m \in near : k <= m) - 1
      ELSE IF indent > levels[Len(levels)] THEN Len(levels) ELSE 0

\* Mutation: a block has to exceed a font size to reach its level.
SizeLevel_Strict(size, font_sizes) ==
  LET n == Len(font_sizes)
  IN  IF size > 0 /\ n > 0
      THEN IF size > font_sizes[n] THEN 1
           ELSE IF n >= 2 /\ size > font_sizes[n - 1] THEN 2
           ELSE IF n >= 3 /\ size > font_sizes[n - 2] THEN 3
           ELSE 4
      ELSE 4

\* The level by font size (_analyze_hierarchy, "level = 4" up to the
\* indentation adjustment). The first test reads
\* (size >= font_sizes[-1]) if len(font_sizes) >= 1 else 14; 14 is truthy.
SizeLevel(size, font_sizes) ==
  LET n == Len(font_sizes)
  IN  IF size > 0 /\ n > 0
      THEN IF (IF n >= 1 THEN size >= font_sizes[n] ELSE TRUE) THEN 1
           ELSE IF n >= 2 /\ size >= font_sizes[n - 1] THEN 2
           ELSE IF n >= 3 /\ size >= font_sizes[n - 2] THEN 3
           ELSE 4
      ELSE 4

\* if indent_level > 0: level = min(level + indent_level, 4)
IndentAdjust(level, indent_level) ==
  IF indent_level > 0
  THEN IF level + indent_level < 4 THEN level + indent_level ELSE 4
  ELSE level

\* Mutation: bold raises the block even from the top level.
BoldAdjust_Unguarded(level, is_bold) == IF is_bold THEN level - 1 ELSE level

\* if is_bold and level > 1: level -= 1
BoldAdjust(level, is_bold) == IF is_bold /\ level > 1 THEN level - 1 ELSE level

\* _analyze_hierarchy: every block's hierarchy_level from the document's
\* font sizes and indentation tiers; an empty list is returned untouched.
AnalyzeHierarchy(bs) ==
  IF bs = <<>> THEN bs
  ELSE LET font_sizes == FontSizes(bs)
           indent_levels == GetIndentLevels(Indentations(bs))
       IN  [i \in DOMAIN bs |->
              [bs[i] EXCEPT !.hierarchy_level =
                 BoldAdjust(
                   IndentAdjust(SizeLevel(bs[i].font_size, font_sizes),
                                GetIndentLevel(bs[i].indentation, indent_levels)),
                   bs[i].is_bold)]]

\* Longest block list the hierarchy pass is run on.
MaxHBlocks == 4

\* Blocks the hierarchy pass is run on: three font sizes and spans without
\* one, indentations in and between tiers, bold and regular.
HierBlocks ==
  {Block(<<"c">>, 10, 2, NoCode, 14, 0, FALSE),
   Block(<<"c">>, 10, 2, NoCode, 14, 20, TRUE),
   Block(<<"c">>, 10, 2, NoCode, 12, 0, TRUE),
   Block(<<"c">>, 10, 2, NoCode, 12, 40, FALSE),
   Block(<<"c">>, 10, 2, NoCode, 10, 12, FALSE),
   Block(<<"c">>, 10, 2, NoCode, 10, 60, TRUE),
   Block(<<"c">>, 10, 2, NoCode, 0, 0, FALSE),
   Block(<<"c">>, 10, 2, NoCode, 0, 20, TRUE)}

\* re.match(r'^[\d\s\-\.]+$', text)
OnlyDigits(text) == text # <<>> /\ \A k \in DOMAIN text : text[k] = "d"

\* len(re.findall(r'[一-龥]', text))
ChineseChars(text) == Cardinality({k \in DOMAIN text : text[k] \in {"c", "k"}})

\* _is_occupation_name
IsOccupationName(text) ==
  IF OnlyDigits(text) THEN FALSE
  ELSE IF \E k \in DOMAIN text : text[k] = "k" THEN TRUE
  ELSE IF text = <<>> THEN FALSE
  ELSE 2 * ChineseChars(text) > Len(text)

\* Mutation: the pass does not skip blocks without a code.
HasCode_Always(b) == TRUE

\* block.get("occupation_code") is truthy.
HasCode(b) == b.occupation_code # NoCode

\* abs(candidate["center_y"] - block["center_y"]) < block["height"]
SameRow(b, c) == Abs(c.center_y - b.center_y) < b.height

\* candidate below the block by less than twice its height.
NextRow(b, c) ==
  /\ c.center_y > b.center_y
  /\ c.center_y - b.center_y < b.height * 2

\* Mutation: the window reaches one block further.
WindowLast_OneMore(i, n) == IF i + 5 < n THEN i + 5 ELSE n

\* Last index (1-based) of range(i + 1, min(i + 5, len(blocks))).
WindowLast(i, n) == IF i + 4 < n THEN i + 4 ELSE n

\* block["occupation_name"] = candidate["text"]; block["confidence"] = conf
WithName(b, text, conf) ==
  [b EXCEPT !.occupation_name = text, !.confidence = conf]

\* The inner loop of _match_occupation_info for block i from candidate j:
\* the first candidate that is a label on the same row (0.9) or on the next
\* row (0.7) ends the scan.
RECURSIVE ScanCandidates(_, _, _, _)
ScanCandidates(bs, i, j, last) ==
  IF j > last THEN bs[i]
  ELSE IF SameRow(bs[i], bs[j])
       THEN IF IsOccupationName(bs[j].text)
            THEN WithName(bs[i], bs[j].text, 90)
            ELSE ScanCandidates(bs, i, j + 1, last)
       ELSE IF NextRow(bs[i], bs[j]) /\ IsOccupationName(bs[j].text)
            THEN WithName(bs[i], bs[j].text, 70)
            ELSE ScanCandidates(bs, i, j + 1, last)

\* _match_occupation_info. The loop mutates blocks in place, but only the
\* name and confidence of block i, which no later iteration reads.
MatchOccupationInfo(bs) ==
  [i \in 1..Len(bs) |->
     IF HasCode(bs[i])
     THEN ScanCandidates(bs, i, i + 1, WindowLast(i, Len(bs)))
     ELSE bs[i]]

\* Blocks the association pass is run on: rows at y = 10, 11 and 14 with
\* height 2 (11 is on the row of 10, 14 is the next row of 11 and out of
\* reach of 10), carrying a code, a label, both, or neither. They share one
\* font size and one indentation and are not bold, so the hierarchy pass
\* has given each the level it gives the block alone.
AssocBlocks ==
  {AnalyzeHierarchy(<<b>>)[1] :
     b \in {Block(<<"d", "d">>, cy, 2, "1-01-01-01", 12, 0, FALSE) : cy \in {10, 11}}
             \cup {Block(<<"c", "c", "a">>, cy, 2, NoCode, 12, 0, FALSE) : cy \in {10, 11, 14}}
             \cup {Block(<<"d", "a", "k">>, 14, 2, "2-02-02-02", 12, 0, FALSE),
                   Block(<<"c", "a">>, 11, 2, NoCode, 12, 0, FALSE)}}

\* The worker is idle while a pass is examined on its own.
WorkerIdle ==
  /\ doc = [openable |-> TRUE, pages |-> 1]
  /\ task = NewTask
  /\ results = <<>>
  /\ blocks = <<>>
  /\ snapshots = <<>>
  /\ objects = {}
  /\ jobs = [j \in JobIds |-> NewJob("t1")]
  /\ raised = 0

InitAssoc ==
  /\ WorkerIdle
  /\ del = NoRequest
  /\ calc = NoCalc
  /\ all_blocks \in ListsUpTo(AssocBlocks, MaxBlocks)
  /\ stage = "analyzed"

\* process_pdf_with_blocks: self._match_occupation_info(all_blocks)
MatchOccupation ==
  /\ stage = "analyzed"
  /\ all_blocks' = MatchOccupationInfo(all_blocks)
  /\ stage' = "matched"
  /\ UNCHANGED <<doc, task, results, blocks, snapshots, objects, jobs, raised, del, calc>>

NextAssoc == MatchOccupation

SpecAssoc == InitAssoc /\ [][NextAssoc]_vars

InitHier ==
  /\ WorkerIdle
  /\ del = NoRequest
  /\ calc = NoCalc
  /\ all_blocks \in ListsUpTo(HierBlocks, MaxHBlocks)
  /\ stage = "extracted"

\* process_pdf_with_blocks: self._analyze_hierarchy(all_blocks)
Analyze ==
  /\ stage = "extracted"
  /\ all_blocks' = AnalyzeHierarchy(all_blocks)
  /\ stage' = "analyzed"
  /\ UNCHANGED <<doc, task, results, blocks, snapshots, objects, jobs, raised, del, calc>>

\* _analyze_hierarchy run once more on the list it has classified.
AnalyzeAgain ==
  /\ stage = "analyzed"
  /\ all_blocks' = AnalyzeHierarchy(all_blocks)
  /\ stage' = "reanalyzed"
  /\ UNCHANGED <<doc, task, results, blocks, snapshots, objects, jobs, raised, del, calc>>

NextHier == Analyze \/ AnalyzeAgain

SpecHier == InitHier /\ [][NextHier]_vars

(***************************************************************************)
(* Functions examined on their own: calc holds the argument drawn in the   *)
(* initial state and, after the one step that applies the function, its    *)
(* result.                                                                 *)
(***************************************************************************)

\* Everything but calc is at rest.
Resting ==
  /\ WorkerIdle
  /\ all_blocks = <<>>
  /\ stage = "idle"
  /\ del = NoRequest

\* Indentations go up to 17 * MaxTiers.
MaxTiers == 5

\* Left edges of blocks: some closer than a tier step to each other, the
\* others a tier step (more than 15) apart.
IndentValues == {0, 8, 9, 16} \cup {17 * k : k \in 1..MaxTiers}

\* A document's indentations and the indentation of one of its blocks.
InitIndent ==
  /\ Resting
  /\ \E S \in SUBSET IndentValues :
       \E x \in S :
         calc = [op |-> "indent", indentations |-> S, indent |-> x,
                 levels |-> <<>>, level |-> -1, done |-> FALSE]

\* _analyze_hierarchy, lines 203-204 and 224: the tiers of the document
\* and the indent level of the block.
IndentLevelOfBlock ==
  /\ calc.op = "indent"
  /\ ~calc.done
  /\ LET levels == GetIndentLevels(Sorted(calc.indentations))
     IN  calc' = [calc EXCEPT !.levels = levels,
                              !.level = GetIndentLevel(calc.indent, levels),
                              !.done = TRUE]
  /\ UNCHANGED <<doc, task, results, blocks, snapshots, objects, jobs, raised,
                 all_blocks, stage, del>>

NextIndent == IndentLevelOfBlock

SpecIndent == InitIndent /\ [][NextIndent]_vars

(***************************************************************************)
(* PageSnapshotService: the layout figures of one page. A text block is    *)
(* its left edge x (in points) and its top edge y (in hundredths of a      *)
(* point).                                                                 *)
(***************************************************************************)

\* Most text blocks on the page.
MaxPageBlocks == 4

\* page.rect.width in points; page.rect.height in hundredths of a point.
PageWidth == 100
PageHeight == 10000

\* round(y, 1) in tenths, for y in hundredths; an exact tie goes to the
\* even tenth.
Round1(y) ==
  LET q == y \div 10
      r == y % 10
  IN  IF r < 5 THEN q
      ELSE IF r > 5 THEN q + 1
      ELSE IF q % 2 = 0 THEN q ELSE q + 1

\* _detect_tables: with more than three blocks, 1 if three of them share a
\* rounded top edge.
DetectTables(text_blocks) ==
  IF Len(text_blocks) > 3
  THEN IF \E i \in DOMAIN text_blocks :
            Cardinality({k \in DOMAIN text_blocks :
                           Round1(text_blocks[k].y) = Round1(text_blocks[i].y)}) >= 3
       THEN 1 ELSE 0
  ELSE 0

\* x_positions.sort(): the list in ascending order, repeats kept.
RECURSIVE SortList(_)
SortList(xs) ==
  IF xs = <<>> THEN <<>>
  ELSE LET rest == SortList(Tail(xs))
           below == SelectSeq(rest, LAMBDA v : v < Head(xs))
           above == SelectSeq(rest, LAMBDA v : v >= Head(xs))
       IN  below \o <<Head(xs)>> \o above

\* The gaps between neighbours of the sorted list wider than a tenth of
\* the page width.
WideGaps(xs) ==
  Cardinality({i \in 2..Len(xs) : (xs[i] - xs[i - 1]) * 10 > PageWidth})

\* Mutation: every wide gap opens a column, however many there are.
Columns_Uncapped(gaps) == gaps + 1

\* columns_count = min(len(gaps) + 1, 3)
Columns(gaps) == IF gaps + 1 < 3 THEN gaps + 1 ELSE 3

\* _detect_layout: header and footer bands at a tenth and nine tenths of
\* the page height, columns from the blocks strictly between them.
DetectLayout(text_blocks) ==
  IF text_blocks = <<>>
  THEN [has_header |-> FALSE, has_footer |-> FALSE, columns_count |-> 1]
  ELSE LET inband == SelectSeq(text_blocks,
                       LAMBDA b : PageHeight < b.y * 10 /\ b.y * 10 < PageHeight * 9)
           x_positions == SortList([i \in DOMAIN inband |-> inband[i].x])
           gaps == WideGaps(x_positions)
       IN  [has_header |-> \E i \in DOMAIN text_blocks :
                             text_blocks[i].y * 10 < PageHeight,
            has_footer |-> \E i \in DOMAIN text_blocks :
                             text_blocks[i].y * 10 > PageHeight * 9,
            columns_count |-> IF x_positions # <<>> /\ gaps >= 1
                              THEN Columns(gaps) ELSE 1]

\* Blocks of a page: a row at y = 50.00 and 50.04 (one rounded value) and
\* 50.06 (the next), left edges a tenth of the width and more apart, a
\* header block, a footer block and a block on the header threshold.
PageBlocks ==
  {[x |-> 0, y |-> 5000], [x |-> 10, y |-> 5000], [x |-> 11, y |-> 5004],
   [x |-> 30, y |-> 5006], [x |-> 60, y |-> 5000], [x |-> 90, y |-> 5004],
   [x |-> 70, y |-> 5006], [x |-> 0, y |-> 500], [x |-> 50, y |-> 9500],
   [x |-> 40, y |-> 1000]}

NoLayout == [has_header |-> FALSE, has_footer |-> FALSE, columns_count |-> 0]

InitPage ==
  /\ Resting
  /\ \E bs \in ListsUpTo(PageBlocks, MaxPageBlocks) :
       calc = [op |-> "page", text_blocks |-> bs, tables_count |-> -1,
               layout |-> NoLayout]

\* _analyze_page_content: tables_count = self._detect_tables(text_blocks)
AnalyzePageContent ==
  /\ calc.op = "page"
  /\ calc.tables_count = -1
  /\ calc' = [calc EXCEPT !.tables_count = DetectTables(calc.text_blocks)]
  /\ UNCHANGED <<doc, task, results, blocks, snapshots, objects, jobs, raised,
                 all_blocks, stage, del>>

\* _detect_layout(page)
DetectPageLayout ==
  /\ calc.op = "page"
  /\ calc.layout = NoLayout
  /\ calc' = [calc EXCEPT !.layout = DetectLayout(calc.text_blocks)]
  /\ UNCHANGED <<doc, task, results, blocks, snapshots, objects, jobs, raised,
                 all_blocks, stage, del>>

NextPage == AnalyzePageContent \/ DetectPageLayout

SpecPage == InitPage /\ [][NextPage]_vars

(***************************************************************************)
(* PDFProcessor: the three validation levels over one opened document. A   *)
(* page's text is "chars" (it has visible characters) or "blank" (empty or *)
(* whitespace only); the joined text is the list of the page texts with    *)
(* the separator "sep" between neighbours. At most one call of the run     *)
(* raises, named by its place.                                             *)
(***************************************************************************)

\* Most pages of a validated document.
MaxVPages == 2

ValidationTypes == {"standard", "enhanced", "strict"}

\* required_metadata = ["Title", "Author", "Creator"]
RequiredMetadata == <<"Title", "Author", "Creator">>

\* The calls that can raise: the page text of the standard level, a page of
\* the page loop, a page of the image listing, the outline of the structure
\* analysis, the figures of the quality check, the fonts of the PDF/A check.
FailPoints ==
  {"none", "std_text", "enh_pages", "enh_images", "enh_structure",
   "enh_quality", "strict_pdfa"}

\* The failure points inside a loop over the pages.
PageFailPoints == {"std_text", "enh_pages", "enh_images", "strict_pdfa"}

\* The failure points each level passes through.
FailPointsOf(vtype) ==
  CASE vtype = "standard" -> {"none", "std_text"}
    [] vtype = "enhanced" -> FailPoints \ {"strict_pdfa"}
    [] vtype = "strict" -> FailPoints

\* "\\n".join(text_content): the separator is the two characters backslash
\* and n, which strip() does not remove.
RECURSIVE Join(_)
Join(texts) ==
  IF Len(texts) <= 1 THEN texts
  ELSE <<Head(texts), "sep">> \o Join(Tail(texts))

\* not text.strip()
StripsToEmpty(text) == \A k \in DOMAIN text : text[k] = "blank"

\* Mutation: the handler of a level also marks the result invalid.
LevelFailed_Invalidates(result, message) ==
  [result EXCEPT !.errors = Append(@, message), !.is_valid = FALSE]

\* except Exception as e: result["errors"].append(...) of the enhanced and
\* strict levels.
LevelFailed(result, message) ==
  [result EXCEPT !.errors = Append(@, message)]

\* _standard_validation
StandardValidation(d, fail) ==
  LET result == [is_valid |-> TRUE, errors |-> <<>>, warnings |-> <<>>,
                 page_count |-> Len(d.page_texts), text |-> <<>>,
                 metadata |-> {}, sections |-> {}, degraded |-> {}]
      text == Join(d.page_texts)
  IN  IF fail = "std_text"
      THEN [result EXCEPT !.metadata = d.metadata, !.is_valid = FALSE,
                          !.errors = Append(@, "standard_failed")]
      ELSE [result EXCEPT
              !.metadata = d.metadata,
              !.text = text,
              !.warnings =
                 (IF Len(d.page_texts) = 0 THEN <<"no_pages">> ELSE <<>>)
                 \o (IF StripsToEmpty(text) THEN <<"no_text">> ELSE <<>>)]

\* _enhanced_validation: the four sections in order inside one try; the
\* structure analysis and the quality check catch their own failures and
\* return a section that says so.
EnhancedValidation(d, fail) ==
  LET result == StandardValidation(d, fail)
  IN  IF fail = "enh_pages"
      THEN LevelFailed(result, "enhanced_failed")
      ELSE IF fail = "enh_images"
      THEN LevelFailed([result EXCEPT !.sections = @ \cup {"pages_info"}],
                       "enhanced_failed")
      ELSE [result EXCEPT
              !.sections = @ \cup {"pages_info", "images_info",
                                   "document_structure", "quality_checks"},
              !.degraded = @ \cup
                 (IF fail = "enh_structure" THEN {"document_structure"}
                  ELSE IF fail = "enh_quality" THEN {"quality_checks"}
                  ELSE {})]

\* The warnings for the required fields the metadata lacks, in the order of
\* required_metadata.
RECURSIVE MissingMetadata(_, _)
MissingMetadata(fields, metadata) ==
  IF fields = <<>> THEN <<>>
  ELSE (IF Head(fields) \in metadata THEN <<>> ELSE <<Head(fields)>>)
       \o MissingMetadata(Tail(fields), metadata)

\* _strict_validation: three checks that catch their own failures, then
\* the strict errors and the metadata warnings.
StrictValidation(d, fail) ==
  LET result == EnhancedValidation(d, fail)
      strict_errors ==
         (IF StripsToEmpty(result.text) THEN <<"strict_no_text">> ELSE <<>>)
         \o (IF result.page_count = 0 THEN <<"strict_no_pages">> ELSE <<>>)
  IN  [result EXCEPT
         !.sections = @ \cup {"pdf_a_compliance", "accessibility_check",
                              "integrity_check"},
         !.degraded = @ \cup (IF fail = "strict_pdfa"
                              THEN {"pdf_a_compliance"} ELSE {}),
         !.warnings = @ \o MissingMetadata(RequiredMetadata, result.metadata),
         !.errors = @ \o strict_errors,
         !.is_valid = IF strict_errors # <<>> THEN FALSE ELSE @]

\* validate_pdf: the level the validation type names.
ValidateLevel(vtype, d, fail) ==
  CASE vtype = "standard" -> StandardValidation(d, fail)
    [] vtype = "enhanced" -> EnhancedValidation(d, fail)
    [] vtype = "strict" -> StrictValidation(d, fail)

UnsetResult ==
  [is_valid |-> FALSE, errors |-> <<>>, warnings |-> <<>>, page_count |-> -1,
   text |-> <<>>, metadata |-> {}, sections |-> {}, degraded |-> {}]

RequiredFields == {RequiredMetadata[i] : i \in DOMAIN RequiredMetadata}

InitValidate ==
  /\ Resting
  /\ \E vtype \in ValidationTypes :
     \E texts \in ListsUpTo({"blank", "chars"}, MaxVPages) :
     \E metadata \in SUBSET RequiredFields :
     \E fail \in FailPointsOf(vtype) :
       /\ fail \in PageFailPoints => texts # <<>>
       /\ calc = [op |-> "validate", validation_type |-> vtype,
                  d |-> [page_texts |-> texts, metadata |-> metadata],
                  fail |-> fail, done |-> FALSE, result |-> UnsetResult]

\* validate_pdf(file_path, validation_type)
ValidatePdf ==
  /\ calc.op = "validate"
  /\ ~calc.done
  /\ calc' = [calc EXCEPT
                !.result = ValidateLevel(calc.validation_type, calc.d, calc.fail),
                !.done = TRUE]
  /\ UNCHANGED <<doc, task, results, blocks, snapshots, objects, jobs, raised,
                 all_blocks, stage, del>>

NextValidate == ValidatePdf

SpecValidate == InitValidate /\ [][NextValidate]_vars

(***************************************************************************)
(* Properties                                                              *)
(***************************************************************************)

\* The rows of a table written by attempt a.
RowsBy(table, a) == {i \in DOMAIN table : table[i].by = a}

\* The job was enqueued for a task that has a ValidationTask row.
HasRecord(j) == jobs[j].task_id \in TaskIds

\* C1: for a task whose record exists, once (MAX_RETRY_ATTEMPTS + 1)
\* attempts have raised and the last failure has been handled, the job is
\* over after exactly that many runs, no further attempt can start, and the
\* task is failed with a message that carries the max-retries marker
\* together with the underlying cause.
C1_ExhaustedEndsFailedWithMarker ==
  \A j \in JobIds :
    (HasRecord(j) /\ raised = MAX_RETRY_ATTEMPTS + 1 /\ jobs[j].pc # "outer") =>
      /\ jobs[j].pc = "dead"
      /\ jobs[j].runs = MAX_RETRY_ATTEMPTS + 1
      /\ ~ENABLED Begin(j)
      /\ task.status = "failed"
      /\ task.error_message.marker = "max_retries"
      /\ task.error_message.exc = jobs[j].exc
      /\ jobs[j].exc # "none"

C1_Witness ==
  \E j \in JobIds :
    /\ HasRecord(j) /\ raised = MAX_RETRY_ATTEMPTS + 1 /\ jobs[j].pc = "dead"
    /\ task.status = "failed"

\* C2: a task that fails on earlier attempts and then succeeds ends
\* completed with only the successful attempt's outcome: its result
\* summary and completion stamp, no error message, and no result, block or
\* snapshot row written by an earlier attempt.
C2_CompletedReflectsOnlySuccess ==
  \A j \in JobIds :
    jobs[j].pc = "done" =>
      /\ task.status = "completed"
      /\ task.result_summary = ResultSummary(ValidatePdfFile(doc))
      /\ task.completed_at = Attempt(j)
      /\ task.error_message = NoMessage
      /\ RowsBy(results, Attempt(j)) = DOMAIN results
      /\ RowsBy(blocks, Attempt(j)) = DOMAIN blocks
      /\ RowsBy(snapshots, Attempt(j)) = DOMAIN snapshots

\* C3: every change of the task's status is pending -> processing,
\* processing -> completed or processing -> failed.
C3_StatusTransitions ==
  [][task'.status # task.status =>
       <<task.status, task'.status>> \in
         {<<"pending", "processing">>, <<"processing", "completed">>,
          <<"processing", "failed">>}]_vars

\* C4: once a failed attempt has been handled and re-scheduled (or given
\* up), the task's retry_count equals the number of attempts that raised.
C4_RetryCountTracksFailures ==
  \A j \in JobIds :
    (HasRecord(j) /\ jobs[j].pc \in {"queued", "dead"}) =>
      task.retry_count = raised

\* C5: one enqueued job runs process_validation_task at most
\* MAX_RETRY_ATTEMPTS + 1 times, and a failed attempt is re-scheduled
\* exactly when fewer than MAX_RETRY_ATTEMPTS retries have been used.
C5_BoundedRetries ==
  /\ [](\A j \in JobIds : jobs[j].runs <= MAX_RETRY_ATTEMPTS + 1)
  /\ [][\A j \in JobIds :
          (jobs[j].pc = "outer" /\ jobs'[j].pc # "outer") =>
            /\ jobs'[j].pc \in {"queued", "dead"}
            /\ jobs'[j].pc = "queued" <=> jobs[j].runs - 1 < MAX_RETRY_ATTEMPTS
            /\ jobs'[j].pc = "queued" => jobs'[j].retries = jobs[j].runs]_vars

C5_Witness ==
  \E j \in JobIds :
    jobs[j].pc = "dead" /\ jobs[j].runs = MAX_RETRY_ATTEMPTS + 1

\* C6: a job dequeued for a task id without a ValidationTask row runs once:
\* it is not re-scheduled and uses no retry.
C6_NotFoundIsTerminal ==
  \A j \in JobIds :
    ~HasRecord(j) => jobs[j].runs <= 1 /\ jobs[j].retries = 0

C9_SnapshotBatchAtomic ==
  \A j \in JobIds :
    LET mine == RowsBy(snapshots, Attempt(j)) IN
      /\ jobs[j].pc \in {"snap", "snapcommit"} => mine = {}
      /\ jobs[j].pc \in {"blocks", "finish", "handler", "outer", "done"} =>
           IF jobs[j].nsnap > 0
           THEN /\ jobs[j].nsnap = doc.pages
                /\ Cardinality(mine) = doc.pages
                /\ \A p \in 1..doc.pages :
                     \E i \in mine : snapshots[i].page_num = p
           ELSE mine = {}

\* A call that processed page 1 and then failed at page 2.
C9_Witness ==
  \E j \in JobIds :
    /\ jobs[j].pc = "blocks" /\ jobs[j].nsnap = 0
    /\ jobs[j].page >= 1 /\ jobs[j].page < doc.pages
    /\ ImageKey(jobs[j].task_id, 1) \in objects

\* C10: the snapshot table holds at most one row per (task id, page
\* number), and a row once created is never modified.
C10_OneSnapshotPerPage ==
  /\ [](\A i, k \in DOMAIN snapshots :
          (snapshots[i].task_id = snapshots[k].task_id
             /\ snapshots[i].page_num = snapshots[k].page_num) => i = k)
  /\ [][\A i \in DOMAIN snapshots :
          i \in DOMAIN snapshots' /\ snapshots'[i] = snapshots[i]]_vars

MatchStep == stage = "analyzed" /\ stage' = "matched"

\* The candidates of block i: blocks i+1..i+4 of the list.
CandidateWindow(bs, i) == {j \in (i + 1)..(i + 4) : j <= Len(bs)}

\* Window blocks on the same row as block i that pass the label predicate.
SameRowLabels(bs, i) ==
  {j \in CandidateWindow(bs, i) :
     /\ Abs(bs[j].center_y - bs[i].center_y) < bs[i].height
     /\ IsOccupationName(bs[j].text)}

\* Window blocks below block i within twice its height that pass the
\* label predicate.
BelowLabels(bs, i) ==
  {j \in CandidateWindow(bs, i) :
     /\ bs[j].center_y > bs[i].center_y
     /\ bs[j].center_y - bs[i].center_y < 2 * bs[i].height
     /\ IsOccupationName(bs[j].text)}

First(S) == CHOOSE j \in S : \A k \in S : j <= k

\* C15: a coded block with a same-row label among blocks i+1..i+4 gets the
\* first such label with confidence 0.9, whatever next-row candidates
\* precede it in the window.
C15_SameRowWins ==
  [][MatchStep =>
       \A i \in DOMAIN all_blocks :
         (all_blocks[i].occupation_code # NoCode
            /\ SameRowLabels(all_blocks, i) # {}) =>
           /\ all_blocks'[i].occupation_name =
                all_blocks[First(SameRowLabels(all_blocks, i))].text
           /\ all_blocks'[i].confidence = 90]_vars

\* C16: a coded block without a same-row label in blocks i+1..i+4 gets the
\* first label of that window lying below it within twice its height, with
\* confidence 0.7; if the window holds no such label its name and
\* confidence stay unset, whatever blocks follow the window.
C16_NextRowOrUnset ==
  [][MatchStep =>
       \A i \in DOMAIN all_blocks :
         (all_blocks[i].occupation_code # NoCode
            /\ SameRowLabels(all_blocks, i) = {}) =>
           IF BelowLabels(all_blocks, i) # {}
           THEN /\ all_blocks'[i].occupation_name =
                     all_blocks[First(BelowLabels(all_blocks, i))].text
                /\ all_blocks'[i].confidence = 70
           ELSE /\ all_blocks'[i].occupation_name = NoName
                /\ all_blocks'[i].confidence = NoConfidence]_vars

\* After the pass: the first block carries a code and is still unnamed;
\* nothing in its window qualifies, but the sixth block is a label on its
\* row.
C16_Witness ==
  /\ stage = "matched"
  /\ Len(all_blocks) >= 6
  /\ all_blocks[1].occupation_code # NoCode
  /\ all_blocks[1].occupation_name = NoName
  /\ all_blocks[1].confidence = NoConfidence
  /\ Abs(all_blocks[6].center_y - all_blocks[1].center_y) < all_blocks[1].height
  /\ IsOccupationName(all_blocks[6].text)

\* C17: the association pass keeps the list and every block's code, text,
\* geometry, font and hierarchy level; it writes nothing to a block
\* without a code, candidates included.
C17_OnlyNameAndConfidence ==
  [][MatchStep =>
       /\ Len(all_blocks') = Len(all_blocks)
       /\ \A i \in DOMAIN all_blocks :
            /\ [all_blocks'[i] EXCEPT
                  !.occupation_name = all_blocks[i].occupation_name,
                  !.confidence = all_blocks[i].confidence] = all_blocks[i]
            /\ all_blocks[i].occupation_code = NoCode =>
                 all_blocks'[i] = all_blocks[i]]_vars

\* After the pass: a coded block named after the uncoded label that follows
\* it, which itself is still unnamed.
C17_Witness ==
  /\ stage = "matched"
  /\ \E i \in DOMAIN all_blocks :
       /\ i + 1 \in DOMAIN all_blocks
       /\ all_blocks[i].occupation_code # NoCode
       /\ all_blocks[i].occupation_name = all_blocks[i + 1].text
       /\ all_blocks[i].confidence = 90
       /\ all_blocks[i + 1].occupation_code = NoCode
       /\ all_blocks[i + 1].occupation_name = NoName
       /\ all_blocks[i + 1].confidence = NoConfidence

\* The step in which the hierarchy pass runs on freshly extracted blocks,
\* and the one in which it runs again on the blocks it has classified.
HierStep == stage = "extracted" /\ stage' = "analyzed"
HierAgainStep == stage = "analyzed" /\ stage' = "reanalyzed"

Levels(bs) == [i \in DOMAIN bs |-> bs[i].hierarchy_level]

\* C18: after the hierarchy pass every block's hierarchy_level is one of
\* 1, 2, 3, 4: with no or one positive font size, for bold blocks, for any
\* indentation.
C18_LevelInRange ==
  stage \in {"analyzed", "reanalyzed"} =>
    \A i \in DOMAIN all_blocks : all_blocks[i].hierarchy_level \in 1..4

\* After the pass: a bold block at level 1 next to a block at level 4.
C18_Witness ==
  /\ stage = "analyzed"
  /\ \E i, j \in DOMAIN all_blocks :
       /\ all_blocks[i].is_bold
       /\ all_blocks[i].hierarchy_level = 1
       /\ all_blocks[j].hierarchy_level = 4

\* S: the distinct positive font sizes of the document.
PositiveSizes(bs) ==
  {bs[i].font_size : i \in {k \in DOMAIN bs : bs[k].font_size > 0}}

\* size >= the k-th largest member of S (S has at least k members).
AtLeastKthLargest(size, S, k) ==
  Cardinality(S) >= k /\ Cardinality({x \in S : x > size}) <= k - 1

\* The level by font size as the rule states it.
RuleLevel(size, S) ==
  IF AtLeastKthLargest(size, S, 1) THEN 1
  ELSE IF AtLeastKthLargest(size, S, 2) THEN 2
  ELSE IF AtLeastKthLargest(size, S, 3) THEN 3
  ELSE 4

\* C19: the level a block has before the indentation and bold adjustments
\* is 1 if its size >= S[last], else 2 if |S| >= 2 and size >=
\* S[second-last], else 3 if |S| >= 3 and size >= S[third-last], else 4
\* (S the sorted distinct positive font sizes); the level stored is that
\* level with the two adjustments applied.
C19_SizeRule ==
  [][HierStep =>
       LET S == PositiveSizes(all_blocks)
           tiers == GetIndentLevels(Indentations(all_blocks))
       IN  \A i \in DOMAIN all_blocks :
             all_blocks'[i].hierarchy_level =
               BoldAdjust(
                 IndentAdjust(RuleLevel(all_blocks[i].font_size, S),
                              GetIndentLevel(all_blocks[i].indentation, tiers)),
                 all_blocks[i].is_bold)]_vars

\* After the pass on a document of three positive font sizes: a regular
\* block of the largest size at the left margin has level 1, a block of
\* the second size that is not moved by indentation or bold has level 2,
\* and a span without a size has level 4.
C19_Witness ==
  /\ stage = "analyzed"
  /\ Cardinality(PositiveSizes(all_blocks)) = 3
  /\ \E i, j \in DOMAIN all_blocks :
       /\ \A x \in PositiveSizes(all_blocks) : all_blocks[i].font_size >= x
       /\ ~all_blocks[i].is_bold
       /\ all_blocks[i].indentation = 0
       /\ all_blocks[i].hierarchy_level = 1
       /\ all_blocks[j].font_size = 0
       /\ all_blocks[j].hierarchy_level = 4

\* C20: the hierarchy level of a block depends on the set of blocks only:
\* the pass run on any reordering of the list gives each block the level
\* it gets here, and a second run on the classified blocks leaves the
\* level sequence as it is.
C20_OrderIndependentIdempotent ==
  [][(HierStep =>
        \A p \in Permutations(DOMAIN all_blocks) :
          LET reordered == [k \in DOMAIN all_blocks |-> all_blocks[p[k]]]
          IN  Levels(AnalyzeHierarchy(reordered)) =
                [k \in DOMAIN all_blocks |-> all_blocks'[p[k]].hierarchy_level])
       /\ (HierAgainStep => Levels(all_blocks') = Levels(all_blocks))]_vars

\* After the second run: a list whose blocks are not in order of
\* indentation and sit on different tiers and levels.
C20_Witness ==
  /\ stage = "reanalyzed"
  /\ \E i \in DOMAIN all_blocks :
       /\ i + 1 \in DOMAIN all_blocks
       /\ all_blocks[i].indentation > all_blocks[i + 1].indentation + 15
       /\ all_blocks[i].hierarchy_level # all_blocks[i + 1].hierarchy_level

\* The step in which delete_task_snapshots runs for a task that has rows.
DeleteStep ==
  /\ del.pc = "idle"
  /\ del'.pc = "responded"
  /\ \E i \in DOMAIN snapshots : snapshots[i].task_id = del'.task_id

\* The image and thumbnail paths the rows of a task refer to.
ReferencedPaths(tid) ==
  LET rows == {i \in DOMAIN snapshots : snapshots[i].task_id = tid}
  IN  {ImageKey(tid, snapshots[i].page_num) : i \in rows}
        \cup {ThumbKey(tid, snapshots[i].page_num) :
                i \in {k \in rows : snapshots[k].thumb}}

Range(s) == {s[k] : k \in DOMAIN s}

\* C11 as stated: after a success response of delete_task_snapshots no
\* snapshot row of the task remains and no image or thumbnail object those
\* rows referred to remains in the object store.
C11_RowsAndObjectsGone ==
  [][(DeleteStep /\ del'.status = 200) =>
       /\ \A i \in DOMAIN snapshots' : snapshots'[i].task_id # del'.task_id
       /\ \A path \in ReferencedPaths(del'.task_id) : path \notin objects']_vars

\* C11 (amended): after a success response of a request made once the
\* task's job has ended, no snapshot row of the task remains, the count
\* reported is the number of rows read, and an object those rows referred
\* to remains in the store only if a call to delete it failed, in which
\* case its path is in the failed list of the response.
C11_RowsGoneObjectsGoneOrReported ==
  [][(DeleteStep /\ del'.status = 200) =>
       /\ \A i \in DOMAIN snapshots' : snapshots'[i].task_id # del'.task_id
       /\ del'.deleted_records =
            Cardinality({i \in DOMAIN snapshots :
                           snapshots[i].task_id = del'.task_id})
       /\ \A path \in ReferencedPaths(del'.task_id) :
            path \in objects' => path \in Range(del'.failed)]_vars

\* A success response after which an object is left in the store, reported
\* as failed, while another was deleted and the rows are gone.
C11_Witness ==
  /\ del.pc = "responded"
  /\ del.status = 200
  /\ del.deleted # <<>>
  /\ \E path \in Range(del.failed) : path \in objects
  /\ \A i \in DOMAIN snapshots : snapshots[i].task_id # del.task_id

\* C12: a storage failure on one object does not stop the deletion: unless
\* the database fails, the request ends with a success response, and every
\* path the rows refer to is in exactly one of the deleted and the failed
\* list.
C12_EveryPathInOneList ==
  [][(DeleteStep /\ del'.detail # "db") =>
       /\ del'.status = 200
       /\ \A path \in ReferencedPaths(del'.task_id) :
            (path \in Range(del'.deleted)) # (path \in Range(del'.failed))]_vars

\* Job j is inside process_validation_task: past the task query, not yet
\* returned or re-raised.
Inside(j) ==
  jobs[j].pc \in {"fetch", "extract", "snap", "snapcommit", "blocks",
                  "finish", "handler"}

\* C14: attempts for one task id are not mutually excluded: a delivery
\* that is queued can always enter process_validation_task, whatever the
\* other delivery is doing and whatever the task's status; a delivery that
\* enters when the task is completed sets it back to processing, and when
\* it finishes it replaces completed_at and result_summary with its own
\* and adds a second ValidationResult row.
C14_NoMutualExclusion ==
  /\ [](\A j \in DupIds : jobs[j].pc = "queued" => ENABLED Begin(j))
  /\ [][\A j \in DupIds :
          (jobs[j].pc = "queued" /\ jobs'[j].pc = "fetch"
             /\ task.status = "completed") =>
            /\ task'.status = "processing"
            /\ task'.started_at = Attempt(j)]_vars
  /\ [][\A j \in DupIds :
          (jobs[j].pc = "finish" /\ jobs'[j].pc = "done"
             /\ task.result_summary.set) =>
            /\ task'.status = "completed"
            /\ task'.completed_at = Attempt(j)
            /\ task'.completed_at # task.completed_at
            /\ task'.result_summary = ResultSummary(jobs[j].vres)
            /\ Len(results') = Len(results) + 1]_vars

\* Both deliveries of the job are inside process_validation_task.
C14_Witness == Inside(1) /\ Inside(2)

\* The tiers are the greedy choice from the sorted distinct indentations:
\* the smallest one, then each time the next one more than 15 above the
\* last representative, four at most.
GreedyTiers(levels, S) ==
  /\ Len(levels) \in 1..4
  /\ levels[1] \in S
  /\ \A v \in S : levels[1] <= v
  /\ \A k \in 1..(Len(levels) - 1) :
       /\ levels[k + 1] \in S
       /\ levels[k + 1] - levels[k] > 15
       /\ \A v \in S : (levels[k] < v /\ v < levels[k + 1]) =>
                         v - levels[k] <= 15
  /\ Len(levels) < 4 => \A v \in S : v - levels[Len(levels)] <= 15

\* C21: indent_level(x) is the index of the representative nearest to x
\* among those within 10 of x; with none within 10 it is the tier count if
\* x exceeds the last representative and 0 otherwise; the representatives
\* are the greedy tiers of the sorted distinct indentations.
C21_NearestTier ==
  (calc.op = "indent" /\ calc.done) =>
    LET levels == calc.levels
        x == calc.indent
        near == {k \in DOMAIN levels : Abs(x - levels[k]) < 10}
    IN  /\ GreedyTiers(levels, calc.indentations)
        /\ IF near # {}
           THEN /\ calc.level + 1 \in near
                /\ \A m \in near :
                     Abs(x - levels[calc.level + 1]) <= Abs(x - levels[m])
           ELSE calc.level = IF x > levels[Len(levels)] THEN Len(levels) ELSE 0

\* The blocks of the page whose top edge rounds to tenth t.
RowGroup(bs, t) == {k \in DOMAIN bs : Round1(bs[k].y) = t}

\* C22: tables_count is 1 if some group of blocks sharing a top y rounded
\* to one decimal has at least 3 blocks (a page of exactly three such
\* blocks included), and 0 otherwise.
C22_TablesByGroupOnly ==
  (calc.op = "page" /\ calc.tables_count # -1) =>
    LET bs == calc.text_blocks
    IN  calc.tables_count =
          IF \E i \in DOMAIN bs : Cardinality(RowGroup(bs, Round1(bs[i].y))) >= 3
          THEN 1 ELSE 0

\* The left edges of the blocks strictly between the bands.
BandEdges(bs) ==
  {bs[k].x : k \in {i \in DOMAIN bs :
                      bs[i].y * 10 > PageHeight /\ bs[i].y * 10 < 9 * PageHeight}}

\* g: the left edges in the band that lie more than a tenth of the width
\* right of the next edge to their left.
QualifyingGaps(X) ==
  Cardinality({v \in X : \E u \in X :
                 /\ u < v
                 /\ \A w \in X : ~(u < w /\ w < v)
                 /\ 10 * (v - u) > PageWidth})

\* C23: columns_count = min(g + 1, 3), g the number of gaps wider than
\* 0.10 W between consecutive sorted left edges of the blocks strictly
\* between 0.10 H and 0.90 H, and 1 when the band is empty; so it is
\* always in 1..3.
C23_ColumnsFromGaps ==
  (calc.op = "page" /\ calc.layout # NoLayout) =>
    LET X == BandEdges(calc.text_blocks)
        g == QualifyingGaps(X)
    IN  /\ calc.layout.columns_count \in 1..3
        /\ calc.layout.columns_count =
             IF X = {} THEN 1 ELSE IF g + 1 < 3 THEN g + 1 ELSE 3

\* A page with four blocks in the band, three wide gaps apart, reported
\* with three columns.
C23_Witness ==
  /\ calc.op = "page"
  /\ calc.layout # NoLayout
  /\ QualifyingGaps(BandEdges(calc.text_blocks)) = 3
  /\ calc.layout.columns_count = 3

\* The fields the standard level produces.
LowerFields(r) == <<r.is_valid, r.page_count, r.text, r.metadata, r.warnings>>

\* The sub-analysis each failure point lies in.
SectionOf(fail) ==
  CASE fail = "enh_pages" -> "pages_info"
    [] fail = "enh_images" -> "images_info"
    [] fail = "enh_structure" -> "document_structure"
    [] fail = "enh_quality" -> "quality_checks"
    [] fail = "strict_pdfa" -> "pdf_a_compliance"

EnhancedSections ==
  {"pages_info", "images_info", "document_structure", "quality_checks"}

StrictSections == {"pdf_a_compliance", "accessibility_check", "integrity_check"}

\* The run has finished at the enhanced level with a failure inside one of
\* its sub-analyses.
EnhancedSubFailure ==
  /\ calc.op = "validate"
  /\ calc.done
  /\ calc.validation_type = "enhanced"
  /\ calc.fail \in {"enh_pages", "enh_images", "enh_structure", "enh_quality"}

NoExtractedText(d) == \A i \in DOMAIN d.page_texts : d.page_texts[i] = "blank"

\* C25: with no call failing, a strict result is invalid with an error
\* whenever the document has no text or no pages, and valid otherwise
\* whatever metadata is missing; a standard result is valid with no error,
\* and carries a warning for zero pages and one for empty text.
C25_StrictFailsStandardWarns ==
  (calc.op = "validate" /\ calc.done /\ calc.fail = "none") =>
    LET d == calc.d
        out == calc.result
        hard == NoExtractedText(d) \/ Len(d.page_texts) = 0
    IN  /\ calc.validation_type = "strict" =>
             /\ hard => (~out.is_valid /\ out.errors # <<>>)
             /\ ~hard => (out.is_valid /\ out.errors = <<>>)
        /\ calc.validation_type = "standard" =>
             /\ out.is_valid
             /\ out.errors = <<>>
             /\ Len(d.page_texts) = 0 => "no_pages" \in Range(out.warnings)
             /\ NoExtractedText(d) => "no_text" \in Range(out.warnings)

\* The page step of job j in which the thumbnail of the page is not made:
\* the image is stored, the row is added without a thumbnail path, and the
\* loop goes on to the next page or to the commit.
PageWithoutThumbnail(j) ==
  /\ SnapPage(j)
  /\ LET p == jobs[j].page + 1
         tid == jobs[j].task_id
     IN  /\ ImageKey(tid, p) \in objects'
         /\ jobs'[j].pending =
              Append(jobs[j].pending, SnapshotRecord(tid, p, FALSE, Attempt(j)))
         /\ jobs'[j].pc = IF p = doc.pages THEN "snapcommit" ELSE "snap"

\* The commit of job j stores every pending row.
CommitsBatch(j) ==
  /\ SnapCommit(j)
  /\ snapshots' = snapshots \o jobs[j].pending

\* C26: a thumbnail failure is non-fatal. At every page of the snapshot
\* loop the step without a thumbnail is possible; rows without a thumbnail
\* path never keep the loop from reaching the remaining pages, and a batch
\* holding such rows can commit whole.
C26_ThumbnailFailureNonFatal ==
  \A j \in JobIds :
    /\ (jobs[j].pc = "snap" /\ jobs[j].page < doc.pages) =>
         ENABLED PageWithoutThumbnail(j)
    /\ (jobs[j].pc = "snap" /\ jobs[j].pending # <<>>) =>
         /\ jobs[j].page < doc.pages
         /\ ENABLED SnapPage(j)
    /\ jobs[j].pc = "snapcommit" =>
         /\ Len(jobs[j].pending) = doc.pages
         /\ ENABLED CommitsBatch(j)

\* A committed batch of one attempt over a two-page document whose first
\* row has no thumbnail path and whose second row has one.
C26_Witness ==
  \E i \in DOMAIN snapshots : \E k \in DOMAIN snapshots :
    /\ snapshots[i].page_num = 1
    /\ ~snapshots[i].thumb
    /\ snapshots[k].page_num = 2
    /\ snapshots[k].thumb
    /\ snapshots[k].by = snapshots[i].by
    /\ ImageKey(snapshots[i].task_id, 1) \in objects

\* C27: in every state of the task record, processing implies started_at
\* is set; completed implies completed_at and result_summary are set;
\* failed implies completed_at and error_message are set; pending implies
\* started_at and completed_at are unset.
C27_StatusFields ==
  /\ task.status \in {"pending", "processing", "completed", "failed"}
  /\ task.status = "processing" => task.started_at # NoStamp
  /\ task.status = "completed" =>
       (task.completed_at # NoStamp /\ task.result_summary.set)
  /\ task.status = "failed" =>
       (task.completed_at # NoStamp /\ task.error_message # NoMessage)
  /\ task.status = "pending" =>
       (task.started_at = NoStamp /\ task.completed_at = NoStamp)

\* A task taken up again after a failed attempt: processing, started by
\* the retry, still carrying the end stamp and the message of the failure.
C27_Witness ==
  /\ task.status = "processing"
  /\ task.started_at = <<1, 1>>
  /\ task.completed_at = <<1, 0>>
  /\ task.error_message # NoMessage
  /\ ~task.result_summary.set

\* The snapshot loop of job j fails at page jobs[j].page + 1.
SnapshotLoopFails(j) == jobs[j].pc = "snap" /\ jobs'[j].pc = "blocks"

\* A delete request is answered for a task without snapshot rows.
DeleteWithoutRows ==
  /\ del.pc = "idle"
  /\ del'.pc = "responded"
  /\ \A i \in DOMAIN snapshots : snapshots[i].task_id # del'.task_id

C29_NotFoundIs404 ==
  [][DeleteWithoutRows =>
       /\ del'.status = 404
       /\ snapshots' = snapshots
       /\ objects' = objects]_vars

\* No attempt of job j is between locating its file and leaving
\* process_validation_task.
BetweenAttempts(j) == jobs[j].pc \in {"queued", "outer", "done", "dead"}

\* C30: after every attempt, completed or failed, no temporary copy made
\* for the job exists; and the source file of a local path always exists.
C30_TempFileGone ==
  \A j \in JobIds :
    /\ BetweenAttempts(j) =>
         \A r \in 0..MAX_RETRY_ATTEMPTS : TempFile(<<j, r>>) \notin jobs[j].files
    /\ jobs[j].local => "source" \in jobs[j].files
====
